---------------------------- MODULE Spec2Model ----------------------------
(***************************************************************************)
(* Model of Docker/scripts/get_onnx_info.py: a one-shot command line tool  *)
(* that parses one positional argument, loads the ONNX model at that path  *)
(* and prints one line "-d <name> <shape>" per declared graph input.       *)
(*                                                                         *)
(* Text is modelled as sequences of one-character strings, so that the     *)
(* formatting done by the f-string and by Python's list and int            *)
(* conversions is computed character by character.  Each element of        *)
(* stdout is the text of one print call (one output line).                 *)
(***************************************************************************)
EXTENDS Integers, Sequences, FiniteSets, TLC

(***************************************************************************)
(* Bounds of the model.                                                    *)
(***************************************************************************)
MaxArgs == 2      \* longest command line (tokens after the program name)
MaxInputs == 2    \* most graph inputs a model file declares

(***************************************************************************)
(* Exit statuses of the interpreter.                                       *)
(***************************************************************************)
ExitOk == 0          \* normal end of the script, and argparse's help action
ExitException == 1   \* uncaught exception
ExitUsage == 2       \* argparse's parser.error

(***************************************************************************)
(* Command lines.                                                          *)
(***************************************************************************)
PathTokens == {"a.onnx", "b.onnx"}
OptionTokens == {"-h", "-x"}
Tokens == PathTokens \cup OptionTokens
HelpFlag == "-h"

RECURSIVE SeqsUpTo(_, _)
SeqsUpTo(S, n) ==
    IF n = 0 THEN {<<>>}
    ELSE LET shorter == SeqsUpTo(S, n - 1)
         IN shorter \cup {Append(s, x) : s \in shorter, x \in S}

CommandLines == SeqsUpTo(Tokens, MaxArgs)

(***************************************************************************)
(* The deserialized model: graph.input is a list of ValueInfoProto, each   *)
(* with a name and a type.  type is a oneof (tensor_type, sequence_type,   *)
(* ... or unset); tensor_type.shape is optional; each shape dimension is   *)
(* a oneof (dim_value : int64, dim_param : string, or unset).              *)
(***************************************************************************)
FixedDim(v) == [which |-> "dim_value", dim_value |-> v, dim_param |-> ""]
SymbolicDim(p) == [which |-> "dim_param", dim_value |-> 0, dim_param |-> p]
UnsetDim == [which |-> "none", dim_value |-> 0, dim_param |-> ""]

TensorInput(n, dims) ==
    [name |-> n, type |-> [which |-> "tensor_type", has_shape |-> TRUE, dim |-> dims]]
NonTensorInput(n) ==
    [name |-> n, type |-> [which |-> "sequence_type", has_shape |-> FALSE, dim |-> <<>>]]

GraphInputs ==
    { TensorInput(<<"i", "n", "p", "u", "t">>,
                  <<FixedDim(1), FixedDim(3), FixedDim(224), FixedDim(224)>>),
      TensorInput(<<"x">>, <<>>),
      NonTensorInput(<<"s", "e", "q">>),
      TensorInput(<<"i", "n", " ", "0">>, <<SymbolicDim("N"), FixedDim(10)>>),
      TensorInput(<<>>, <<UnsetDim, FixedDim(-1)>>),
      TensorInput(<<"y">>, <<FixedDim(0), FixedDim(7)>>) }

ModelProtos == SeqsUpTo(GraphInputs, MaxInputs)

(***************************************************************************)
(* The file system: a function from the paths that exist to what they      *)
(* hold.  A path outside its domain does not exist.                        *)
(***************************************************************************)
ExistingPaths == {"a.onnx"}
FileContents ==
    {[kind |-> "unreadable", graph_input |-> <<>>],
     [kind |-> "malformed", graph_input |-> <<>>]}
    \cup {[kind |-> "model", graph_input |-> m] : m \in ModelProtos}
FileSystems == UNION {[D -> FileContents] : D \in SUBSET ExistingPaths}

(***************************************************************************)
(* argparse: ArgumentParser(description=...) with one positional           *)
(* 'onnxfile' and the default -h/--help option.  Option strings are        *)
(* handled as they are met, so a help flag anywhere prints the help and    *)
(* exits 0.  Otherwise a missing positional is an error, and so is any     *)
(* token left over (a second positional, an unknown option).               *)
(***************************************************************************)
Positionals(argv) == SelectSeq(argv, LAMBDA t : t \notin OptionTokens)
HasHelpFlag(argv) == \E i \in 1..Len(argv) : argv[i] = HelpFlag
HasUnknownOption(argv) ==
    \E i \in 1..Len(argv) : argv[i] \in OptionTokens /\ argv[i] # HelpFlag

\* Variant: the positional declared optional (nargs='?'), so that a command
\* line without it parses.
ParseArgsResultOptional(argv) ==
    IF HasHelpFlag(argv)
    THEN [outcome |-> "help", onnxfile |-> "", message |-> ""]
    ELSE IF Len(Positionals(argv)) > 1 \/ HasUnknownOption(argv)
    THEN [outcome |-> "error", onnxfile |-> "",
          message |-> "error: unrecognized arguments"]
    ELSE IF Len(Positionals(argv)) = 0
    THEN [outcome |-> "ok", onnxfile |-> "", message |-> ""]
    ELSE [outcome |-> "ok", onnxfile |-> Positionals(argv)[1], message |-> ""]

ParseArgsResult(argv) ==
    IF HasHelpFlag(argv)
    THEN [outcome |-> "help", onnxfile |-> "", message |-> ""]
    ELSE IF Len(Positionals(argv)) = 0
    THEN [outcome |-> "error", onnxfile |-> "",
          message |-> "error: the following arguments are required: onnxfile"]
    ELSE IF Len(Positionals(argv)) > 1 \/ HasUnknownOption(argv)
    THEN [outcome |-> "error", onnxfile |-> "",
          message |-> "error: unrecognized arguments"]
    ELSE [outcome |-> "ok", onnxfile |-> Positionals(argv)[1], message |-> ""]

UsageLine ==
    <<"u", "s", "a", "g", "e", ":", " ", "g", "e", "t", "_", "o", "n", "n", "x",
      "_", "i", "n", "f", "o", ".", "p", "y", " ", "[", "-", "h", "]", " ", "o",
      "n", "n", "x", "f", "i", "l", "e">>

HelpText ==
    << UsageLine,
       <<>>,
       <<"g", "e", "t", " ", "o", "n", "n", "x", " ", "i", "n", "f", "o">>,
       <<>>,
       <<"p", "o", "s", "i", "t", "i", "o", "n", "a", "l", " ", "a", "r", "g",
         "u", "m", "e", "n", "t", "s", ":">>,
       <<" ", " ", "o", "n", "n", "x", "f", "i", "l", "e", " ", " ", " ", " ",
         "i", "n", "p", "u", "t", " ", "o", "n", "n", "x", " ", "f", "i", "l",
         "e">>,
       <<>>,
       <<"o", "p", "t", "i", "o", "n", "s", ":">>,
       <<" ", " ", "-", "h", ",", " ", "-", "-", "h", "e", "l", "p", " ", " ",
         "s", "h", "o", "w", " ", "t", "h", "i", "s", " ", "h", "e", "l", "p",
         " ", "m", "e", "s", "s", "a", "g", "e", " ", "a", "n", "d", " ", "e",
         "x", "i", "t">> >>

(***************************************************************************)
(* onnx.load: reads the file and deserializes it.  It raises when the      *)
(* path does not exist, cannot be read, or does not decode.                *)
(***************************************************************************)
\* Variant: a file that does not decode is taken for an empty model.
LoadResultLenient(fs, path) ==
    IF path \notin DOMAIN fs
    THEN [ok |-> FALSE, error |-> "FileNotFoundError", graph_input |-> <<>>]
    ELSE IF fs[path].kind = "unreadable"
    THEN [ok |-> FALSE, error |-> "PermissionError", graph_input |-> <<>>]
    ELSE [ok |-> TRUE, error |-> "", graph_input |-> fs[path].graph_input]

LoadResult(fs, path) ==
    IF path \notin DOMAIN fs
    THEN [ok |-> FALSE, error |-> "FileNotFoundError", graph_input |-> <<>>]
    ELSE IF fs[path].kind = "unreadable"
    THEN [ok |-> FALSE, error |-> "PermissionError", graph_input |-> <<>>]
    ELSE IF fs[path].kind = "malformed"
    THEN [ok |-> FALSE, error |-> "DecodeError", graph_input |-> <<>>]
    ELSE [ok |-> TRUE, error |-> "", graph_input |-> fs[path].graph_input]

(***************************************************************************)
(* Reading the shape: protobuf getters return the default instance of an   *)
(* unset submessage (so a type without tensor shape has no dimensions)     *)
(* and the default 0 of a oneof member that is not the one set.            *)
(***************************************************************************)
ShapeDims(input) ==
    IF input.type.which = "tensor_type" /\ input.type.has_shape
    THEN input.type.dim
    ELSE <<>>

\* Variant: a dimension without a fixed value reads as the sentinel -1.
DimValueSentinel(dim) == IF dim.which = "dim_value" THEN dim.dim_value ELSE -1

DimValue(dim) == IF dim.which = "dim_value" THEN dim.dim_value ELSE 0

ShapeOf(input) == [k \in 1..Len(ShapeDims(input)) |-> DimValue(ShapeDims(input)[k])]

(***************************************************************************)
(* Python's text conversions: str of an int, str of a list of ints, and    *)
(* the f-string of line 11.                                                *)
(***************************************************************************)
Digits == <<"0", "1", "2", "3", "4", "5", "6", "7", "8", "9">>

RECURSIVE NatStr(_)
NatStr(n) ==
    IF n < 10 THEN <<Digits[n + 1]>>
    ELSE NatStr(n \div 10) \o <<Digits[(n % 10) + 1]>>

IntStr(n) == IF n < 0 THEN <<"-">> \o NatStr(0 - n) ELSE NatStr(n)

RECURSIVE JoinInts(_)
JoinInts(s) ==
    IF Len(s) = 0 THEN <<>>
    ELSE IF Len(s) = 1 THEN IntStr(s[1])
    ELSE IntStr(s[1]) \o <<",", " ">> \o JoinInts(Tail(s))

\* Variant: the items joined by a bare comma.
RECURSIVE JoinIntsTight(_)
JoinIntsTight(s) ==
    IF Len(s) = 0 THEN <<>>
    ELSE IF Len(s) = 1 THEN IntStr(s[1])
    ELSE IntStr(s[1]) \o <<",">> \o JoinIntsTight(Tail(s))

ListStrTight(s) == <<"[">> \o JoinIntsTight(s) \o <<"]">>

ListStr(s) == <<"[">> \o JoinInts(s) \o <<"]">>

\* Variant: no space between the name and the shape.
FormatLineNoSpace(input_name, shape) ==
    <<"-", "d", " ">> \o input_name \o ListStr(shape)

FormatLine(input_name, shape) ==
    <<"-", "d", " ">> \o input_name \o <<" ">> \o ListStr(shape)

LineFor(input) == FormatLine(input.name, ShapeOf(input))

(***************************************************************************)
(* State of one process, and of the file system it runs on.                *)
(***************************************************************************)
VARIABLES
    argv,         \* the command line, after the program name
    files,        \* the file system
    pc,           \* "parse", "load", "loop" or "exit"
    args,         \* the parsed arguments
    model,        \* the loaded model
    idx,          \* position of the for loop in model.graph.input
    stdout,       \* lines printed so far
    stderr,       \* diagnostics printed so far
    exitStatus,   \* exit status once pc = "exit"; -1 while running
    loads,        \* number of calls of onnx.load
    run,          \* which run of the program this is
    firstRun      \* what the first run produced, once a second one starts

vars == <<argv, files, pc, args, model, idx, stdout, stderr, exitStatus,
          loads, run, firstRun>>

NoArgs == [parsed |-> FALSE, onnxfile |-> ""]
NoModel == [loaded |-> FALSE, graph_input |-> <<>>]
NoRun == [done |-> FALSE, stdout |-> <<>>, stderr |-> <<>>, exitStatus |-> -1]

Init ==
    /\ argv \in CommandLines
    /\ files \in FileSystems
    /\ pc = "parse"
    /\ args = NoArgs
    /\ model = NoModel
    /\ idx = 0
    /\ stdout = <<>>
    /\ stderr = <<>>
    /\ exitStatus = -1
    /\ loads = 0
    /\ run = 1
    /\ firstRun = NoRun

(***************************************************************************)
(* Lines 4-6: build the parser and parse the command line.                 *)
(***************************************************************************)
ParseArgs ==
    /\ pc = "parse"
    /\ LET r == ParseArgsResult(argv)
       IN CASE r.outcome = "ok" ->
                 /\ args' = [parsed |-> TRUE, onnxfile |-> r.onnxfile]
                 /\ pc' = "load"
                 /\ UNCHANGED <<stdout, stderr, exitStatus>>
            [] r.outcome = "help" ->
                 /\ stdout' = stdout \o HelpText
                 /\ exitStatus' = ExitOk
                 /\ pc' = "exit"
                 /\ UNCHANGED <<args, stderr>>
            [] OTHER ->
                 /\ stderr' = stderr \o <<"usage", r.message>>
                 /\ exitStatus' = ExitUsage
                 /\ pc' = "exit"
                 /\ UNCHANGED <<args, stdout>>
    /\ UNCHANGED <<argv, files, model, idx, loads, run, firstRun>>

\* Variant: a failed load is caught and tried once more.
LoadModelRetrying ==
    /\ pc = "load"
    /\ loads' = loads + 1
    /\ LET r == LoadResult(files, args.onnxfile)
       IN IF r.ok
          THEN /\ model' = [loaded |-> TRUE, graph_input |-> r.graph_input]
               /\ idx' = 1
               /\ pc' = "loop"
               /\ UNCHANGED <<stderr, exitStatus>>
          ELSE IF loads = 0
          THEN UNCHANGED <<model, idx, pc, stderr, exitStatus>>
          ELSE /\ stderr' = stderr \o <<"Traceback", r.error>>
               /\ exitStatus' = ExitException
               /\ pc' = "exit"
               /\ UNCHANGED <<model, idx>>
    /\ UNCHANGED <<argv, files, args, stdout, run, firstRun>>

\* Variant: the load removes the file it has read.
LoadModelConsuming ==
    /\ pc = "load"
    /\ loads' = loads + 1
    /\ LET r == LoadResult(files, args.onnxfile)
       IN IF r.ok
          THEN /\ model' = [loaded |-> TRUE, graph_input |-> r.graph_input]
               /\ idx' = 1
               /\ pc' = "loop"
               /\ files' = [p \in DOMAIN files \ {args.onnxfile} |-> files[p]]
               /\ UNCHANGED <<stderr, exitStatus>>
          ELSE /\ stderr' = stderr \o <<"Traceback", r.error>>
               /\ exitStatus' = ExitException
               /\ pc' = "exit"
               /\ UNCHANGED <<model, idx, files>>
    /\ UNCHANGED <<argv, args, stdout, run, firstRun>>

(***************************************************************************)
(* Line 7: model = onnx.load(args.onnxfile).  An exception is not caught:  *)
(* the interpreter prints the traceback and exits.                         *)
(***************************************************************************)
LoadModel ==
    /\ pc = "load"
    /\ loads' = loads + 1
    /\ LET r == LoadResult(files, args.onnxfile)
       IN IF r.ok
          THEN /\ model' = [loaded |-> TRUE, graph_input |-> r.graph_input]
               /\ idx' = 1
               /\ pc' = "loop"
               /\ UNCHANGED <<stderr, exitStatus>>
          ELSE /\ stderr' = stderr \o <<"Traceback", r.error>>
               /\ exitStatus' = ExitException
               /\ pc' = "exit"
               /\ UNCHANGED <<model, idx>>
    /\ UNCHANGED <<argv, files, args, stdout, run, firstRun>>

\* Variant: the inputs are visited from the last to the first.
PrintInputReversed ==
    /\ pc = "loop"
    /\ idx <= Len(model.graph_input)
    /\ stdout' = Append(stdout,
                        LineFor(model.graph_input[Len(model.graph_input) + 1 - idx]))
    /\ idx' = idx + 1
    /\ UNCHANGED <<argv, files, pc, args, model, stderr, exitStatus, loads,
                   run, firstRun>>

\* Variant: the iteration clears the name of the input it has printed.
PrintInputRenaming ==
    /\ pc = "loop"
    /\ idx <= Len(model.graph_input)
    /\ stdout' = Append(stdout, LineFor(model.graph_input[idx]))
    /\ model' = [model EXCEPT !.graph_input[idx].name = <<>>]
    /\ idx' = idx + 1
    /\ UNCHANGED <<argv, files, pc, args, stderr, exitStatus, loads,
                   run, firstRun>>

(***************************************************************************)
(* Lines 8-12, one iteration of the loop: format and print the line of     *)
(* the input the loop is at.                                               *)
(***************************************************************************)
PrintInput ==
    /\ pc = "loop"
    /\ idx <= Len(model.graph_input)
    /\ stdout' = Append(stdout, LineFor(model.graph_input[idx]))
    /\ idx' = idx + 1
    /\ UNCHANGED <<argv, files, pc, args, model, stderr, exitStatus, loads,
                   run, firstRun>>

\* Variant: a model without inputs is reported and counted as a failure.
FinishLoopEmptyIsError ==
    /\ pc = "loop"
    /\ idx > Len(model.graph_input)
    /\ IF Len(model.graph_input) = 0
       THEN /\ stdout' = Append(stdout, <<"-", "d", " ">>)
            /\ exitStatus' = ExitException
       ELSE /\ exitStatus' = ExitOk
            /\ UNCHANGED stdout
    /\ pc' = "exit"
    /\ UNCHANGED <<argv, files, args, model, idx, stderr, loads, run,
                   firstRun>>

(***************************************************************************)
(* Line 8 with the input list exhausted: the script ends.                  *)
(***************************************************************************)
FinishLoop ==
    /\ pc = "loop"
    /\ idx > Len(model.graph_input)
    /\ exitStatus' = ExitOk
    /\ pc' = "exit"
    /\ UNCHANGED <<argv, files, args, model, idx, stdout, stderr, loads, run,
                   firstRun>>

Next == ParseArgs \/ LoadModel \/ PrintInput \/ FinishLoop

Spec == Init /\ [][Next]_vars

(***************************************************************************)
(* A second run of the program with the same command line, on the file     *)
(* system the first run left behind.  A process starts with fresh          *)
(* interpreter state; only the file system is carried over.                *)
(***************************************************************************)
RunAgain ==
    /\ pc = "exit"
    /\ run = 1
    /\ firstRun' = [done |-> TRUE, stdout |-> stdout, stderr |-> stderr,
                    exitStatus |-> exitStatus]
    /\ run' = 2
    /\ pc' = "parse"
    /\ args' = NoArgs
    /\ model' = NoModel
    /\ idx' = 0
    /\ stdout' = <<>>
    /\ stderr' = <<>>
    /\ exitStatus' = -1
    /\ loads' = 0
    /\ UNCHANGED <<argv, files>>

NextTwice == ParseArgs \/ LoadModel \/ PrintInput \/ FinishLoop \/ RunAgain

SpecTwice == Init /\ [][NextTwice]_vars

(***************************************************************************)
(* Reading an output line back: the inverse of the formatting, used to     *)
(* state what a line says.  A line is well formed when it is "-d ", a      *)
(* name, one space, and a bracketed list of canonical decimal integers     *)
(* separated by a comma and a space; the list may be empty.                *)
(***************************************************************************)
FirstIndex(t, c) ==
    LET S == {i \in 1..Len(t) : t[i] = c}
    IN IF S = {} THEN 0 ELSE CHOOSE i \in S : \A j \in S : i <= j

LastIndex(t, c) ==
    LET S == {i \in 1..Len(t) : t[i] = c}
    IN IF S = {} THEN 0 ELSE CHOOSE i \in S : \A j \in S : j <= i

RECURSIVE SplitComma(_)
SplitComma(t) ==
    LET j == FirstIndex(t, ",")
    IN IF j = 0 THEN <<t>>
       ELSE <<SubSeq(t, 1, j - 1)>> \o SplitComma(SubSeq(t, j + 1, Len(t)))

ListItems(body) ==
    IF body = <<>> THEN <<>>
    ELSE LET parts == SplitComma(body)
         IN [k \in 1..Len(parts) |->
               IF k = 1 THEN parts[k]
               ELSE IF Len(parts[k]) > 0 /\ parts[k][1] = " " THEN Tail(parts[k])
               ELSE <<"?">>]

IsDigit(c) == \E d \in 1..10 : Digits[d] = c
DigitValue(c) == (CHOOSE d \in 1..10 : Digits[d] = c) - 1

IsNatText(t) ==
    /\ Len(t) >= 1
    /\ \A i \in 1..Len(t) : IsDigit(t[i])
    /\ Len(t) > 1 => t[1] # "0"

IsIntText(t) ==
    \/ IsNatText(t)
    \/ Len(t) >= 2 /\ t[1] = "-" /\ IsNatText(Tail(t)) /\ Tail(t) # <<"0">>

RECURSIVE NatValue(_)
NatValue(t) ==
    IF Len(t) = 0 THEN 0
    ELSE 10 * NatValue(SubSeq(t, 1, Len(t) - 1)) + DigitValue(t[Len(t)])

IntValue(t) == IF t[1] = "-" THEN 0 - NatValue(Tail(t)) ELSE NatValue(t)

ReadLine(line) ==
    LET n == Len(line)
        b == LastIndex(line, "[")
        framed == /\ n >= 6
                  /\ SubSeq(line, 1, 3) = <<"-", "d", " ">>
                  /\ line[n] = "]"
                  /\ b >= 5
                  /\ line[b - 1] = " "
        items == ListItems(SubSeq(line, b + 1, n - 1))
    IN IF framed /\ \A k \in 1..Len(items) : IsIntText(items[k])
       THEN [ok |-> TRUE, name |-> SubSeq(line, 4, b - 2),
             values |-> [k \in 1..Len(items) |-> IntValue(items[k])]]
       ELSE [ok |-> FALSE, name |-> <<>>, values |-> <<>>]

IsDLine(line) == Len(line) >= 2 /\ line[1] = "-" /\ line[2] = "d"
NoDLines(out) == \A i \in 1..Len(out) : ~IsDLine(out[i])
IsPrefix(s, t) == Len(s) <= Len(t) /\ SubSeq(t, 1, Len(s)) = s

Inputs == model.graph_input
NumInputs == Len(model.graph_input)

\* What the model file declares for an input: the value fields of the
\* dimensions of its tensor-type shape (none when it has no tensor shape).
DeclaredDims(input) ==
    IF input.type.which = "tensor_type" /\ input.type.has_shape
    THEN input.type.dim ELSE <<>>
DeclaredValues(input) ==
    [k \in 1..Len(DeclaredDims(input)) |-> DeclaredDims(input)[k].dim_value]

\* Whether the path holds a model that loads.
HoldsModel(fs, path) == path \in DOMAIN fs /\ fs[path].kind = "model"

(***************************************************************************)
(* C1: in a run that has loaded a valid model with N declared inputs, the  *)
(* lines printed so far are, in order, the lines of the first inputs of    *)
(* the input list (the i-th line is the line of the i-th input), and once  *)
(* the run has ended exactly N lines have been printed.                    *)
(***************************************************************************)
C1_OneLinePerInputInOrder ==
    model.loaded =>
        /\ Len(stdout) <= NumInputs
        /\ \A i \in 1..Len(stdout) : stdout[i] = LineFor(Inputs[i])
        /\ pc = "exit" => Len(stdout) = NumInputs

C1_Witness ==
    /\ pc = "exit"
    /\ model.loaded
    /\ NumInputs = 2
    /\ LineFor(Inputs[1]) # LineFor(Inputs[2])
    /\ Len(stdout) = 2

(***************************************************************************)
(* C2: the line printed for an input reads back as "-d ", the input's      *)
(* name, one space, and the bracketed ", "-separated list of the integer   *)
(* values of its tensor-type shape dimensions, as many as the shape has    *)
(* and in axis order; a first input named input of shape [1, 3, 224, 224]  *)
(* gives the first line "-d input [1, 3, 224, 224]".                       *)
(***************************************************************************)
ExampleInput ==
    TensorInput(<<"i", "n", "p", "u", "t">>,
                <<FixedDim(1), FixedDim(3), FixedDim(224), FixedDim(224)>>)
ExampleLine ==
    <<"-", "d", " ", "i", "n", "p", "u", "t", " ", "[", "1", ",", " ", "3", ",",
      " ", "2", "2", "4", ",", " ", "2", "2", "4", "]">>

C2_LineFormat ==
    model.loaded =>
        \A i \in 1..Len(stdout) :
            /\ ReadLine(stdout[i]).ok
            /\ ReadLine(stdout[i]).name = Inputs[i].name
            /\ ReadLine(stdout[i]).values = DeclaredValues(Inputs[i])
            /\ (i = 1 /\ Inputs[1] = ExampleInput) => stdout[1] = ExampleLine

C2_Witness ==
    /\ model.loaded
    /\ Len(stdout) = 2
    /\ Inputs[1] = ExampleInput
    /\ stdout[1] = ExampleLine
    /\ Len(ReadLine(stdout[2]).values) = 2

(***************************************************************************)
(* C3 as stated: every line printed for a valid model holds at least one   *)
(* integer between its brackets.                                           *)
(***************************************************************************)
C3_AtLeastOneInteger ==
    model.loaded =>
        \A i \in 1..Len(stdout) :
            ReadLine(stdout[i]).ok /\ Len(ReadLine(stdout[i]).values) >= 1

(***************************************************************************)
(* C3 amended: every line printed for a valid model is "-d <name> [...]"   *)
(* where the brackets hold as many ", "-separated integers as the input's  *)
(* tensor shape has dimensions: none (the text "[]") for an input whose    *)
(* shape declares zero dimensions or whose type carries no tensor shape.   *)
(***************************************************************************)
C3_PatternWithPossiblyEmptyList ==
    model.loaded =>
        \A i \in 1..Len(stdout) :
            /\ ReadLine(stdout[i]).ok
            /\ Len(ReadLine(stdout[i]).values) = Len(DeclaredDims(Inputs[i]))
            /\ Len(DeclaredDims(Inputs[i])) = 0 =>
                 SubSeq(stdout[i], Len(stdout[i]) - 2, Len(stdout[i]))
                     = <<" ", "[", "]">>

C3_Witness ==
    /\ model.loaded
    /\ Len(stdout) = 2
    /\ Inputs[1].type.which = "tensor_type" /\ DeclaredDims(Inputs[1]) = <<>>
    /\ stdout[1] = <<"-", "d", " ", "x", " ", "[", "]">>
    /\ Inputs[2].type.which # "tensor_type"
    /\ Len(DeclaredDims(Inputs[2])) = 0

(***************************************************************************)
(* C4: when the path given does not hold a model that loads (it does not   *)
(* exist, cannot be read, or does not decode), no "-d" line is printed at  *)
(* any point of the run, the load is tried at most once, and the failed    *)
(* load ends the run at once with a non-zero exit status.                  *)
(***************************************************************************)
C4_LoadFailureIsFatal ==
    (args.parsed /\ ~HoldsModel(files, args.onnxfile)) =>
        /\ NoDLines(stdout)
        /\ ~model.loaded
        /\ loads <= 1
        /\ loads = 1 => (pc = "exit" /\ exitStatus > 0)

C4_Witness ==
    /\ args.parsed
    /\ args.onnxfile \in DOMAIN files
    /\ files[args.onnxfile].kind = "malformed"
    /\ loads = 1
    /\ pc = "exit"

C6_ZeroInputs ==
    (model.loaded /\ NumInputs = 0) =>
        /\ stdout = <<>>
        /\ idx = 1
        /\ pc \in {"loop", "exit"}
        /\ pc = "exit" => exitStatus = ExitOk

C6_Witness ==
    /\ model.loaded
    /\ NumInputs = 0
    /\ pc = "exit"
    /\ exitStatus = ExitOk

(***************************************************************************)
(* C7: a second run with the same command line on the same file ends with  *)
(* the same output, line for line and character for character, and the     *)
(* same exit status as the first.                                          *)
(***************************************************************************)
C7_SecondRunIdentical ==
    (run = 2 /\ pc = "exit") =>
        /\ firstRun.done
        /\ stdout = firstRun.stdout
        /\ stderr = firstRun.stderr
        /\ exitStatus = firstRun.exitStatus

C7_Witness ==
    /\ run = 2
    /\ pc = "exit"
    /\ model.loaded
    /\ Len(stdout) = 2
    /\ firstRun.stdout = stdout

(***************************************************************************)
(* C8: no step changes the file system or the command line, no step        *)
(* changes the model once it is loaded, and a step changes standard        *)
(* output only by appending to it.                                         *)
(***************************************************************************)
C8_Frame ==
    [][ /\ files' = files
        /\ argv' = argv
        /\ model.loaded => model' = model
        /\ IsPrefix(stdout, stdout') ]_vars

C8_Witness ==
    /\ pc = "exit"
    /\ model.loaded
    /\ NumInputs = 2
    /\ Len(stdout) = 2
    /\ Inputs[1].name # <<>>

(***************************************************************************)
(* C9: control flow is linear.  The load starts only after the arguments   *)
(* are parsed and is done at most once; a "-d" line is printed only after  *)
(* the load has succeeded; the run never goes back to an earlier step,     *)
(* and only the loop takes more than one step; a run that loaded a model   *)
(* ends with exit status 0 once every input's line is printed.             *)
(***************************************************************************)
PcRank(p) ==
    CASE p = "parse" -> 0 [] p = "load" -> 1 [] p = "loop" -> 2 [] OTHER -> 3

C9_LinearControlFlow ==
    /\ [](/\ (pc \in {"load", "loop"} \/ loads > 0) => args.parsed
          /\ loads <= 1
          /\ ~NoDLines(stdout) => (model.loaded /\ loads = 1)
          /\ pc = "loop" => (model.loaded /\ Len(stdout) = idx - 1)
          /\ (pc = "exit" /\ model.loaded) =>
                (exitStatus = ExitOk /\ Len(stdout) = NumInputs))
    /\ [][ /\ PcRank(pc') >= PcRank(pc)
           /\ pc' = pc => (pc = "loop" /\ idx' = idx + 1) ]_vars

C9_Witness ==
    /\ pc = "exit"
    /\ exitStatus = ExitOk
    /\ loads = 1
    /\ args.parsed
    /\ NumInputs = 2
    /\ idx = 3

(***************************************************************************)
(* C10: a dimension that is symbolic or unset is printed as 0 at its axis  *)
(* position, so that the line is the one of the same input with a fixed    *)
(* dimension of size 0 there; the conversion does not stop the run, which  *)
(* prints every input's line and ends with exit status 0.                  *)
(***************************************************************************)
WithZeroDims(input) ==
    [input EXCEPT !.type.dim =
        [k \in 1..Len(input.type.dim) |->
            IF input.type.dim[k].which = "dim_value"
            THEN input.type.dim[k] ELSE FixedDim(0)]]

HasDynamicDim(input) ==
    \E k \in 1..Len(DeclaredDims(input)) : DeclaredDims(input)[k].which # "dim_value"

C10_DynamicDimPrintsZero ==
    model.loaded =>
        /\ \A i \in 1..Len(stdout) :
              /\ ReadLine(stdout[i]).ok
              /\ Len(ReadLine(stdout[i]).values) = Len(DeclaredDims(Inputs[i]))
              /\ \A k \in 1..Len(DeclaredDims(Inputs[i])) :
                    DeclaredDims(Inputs[i])[k].which # "dim_value"
                        => ReadLine(stdout[i]).values[k] = 0
              /\ stdout[i] = LineFor(WithZeroDims(Inputs[i]))
        /\ pc = "exit" => (exitStatus = ExitOk /\ Len(stdout) = NumInputs)

C10_Witness ==
    /\ model.loaded
    /\ pc = "exit"
    /\ exitStatus = ExitOk
    /\ NumInputs = 2
    /\ HasDynamicDim(Inputs[1]) /\ HasDynamicDim(Inputs[2])
    /\ Inputs[1].type.dim[1].which = "dim_param"
    /\ Inputs[2].type.dim[1].which = "none"
    /\ ReadLine(stdout[1]).values = <<0, 10>>
    /\ ReadLine(stdout[2]).values = <<0, -1>>

=============================================================================
